---- MODULE Spec2Model ----
(***************************************************************************)
(* Lot-based inventory costing: the Inventory ledger of seller.py (buy,    *)
(* sell, pay and the derived metrics) and the Stack of stack.py (add,      *)
(* take_first, take_last, equalize_prices).                                *)
(*                                                                         *)
(* Batch objects are mutable Python objects: the model keeps them in a     *)
(* heap indexed by object identity, and every list of batches (a lot       *)
(* sequence, a Parcel's fragment list, a Stack's deque) is a sequence of   *)
(* identities.  Prices and money amounts are Python floats (IEEE 754       *)
(* binary64, round to nearest even); quantities are Python ints, as in     *)
(* every test and example of the repository.                               *)
(***************************************************************************)
EXTENDS Integers, Sequences, FiniteSets, TLC

(***************************************************************************)
(* Python float arithmetic on non-negative values.  A float is the record  *)
(* [m, e]: m is the significand, a natural of exactly MantissaBits bits,    *)
(* and the value is m * 2^e; zero has the empty significand.  Every        *)
(* operation computes the exact result and rounds it once, to nearest,     *)
(* ties to even.                                                           *)
(***************************************************************************)
MantissaBits == 53

\* Exact naturals of any size: little-endian sequences of limbs in
\* 0..Base-1, the most significant limb not zero; << >> is 0.
Base == 2^14
RECURSIVE NatToLimbs(_)
NatToLimbs(n) == IF n = 0 THEN << >> ELSE <<n % Base>> \o NatToLimbs(n \div Base)

RECURSIVE Trim(_)
Trim(a) ==
    IF a = << >> THEN a
    ELSE IF a[Len(a)] # 0 THEN a
    ELSE Trim(SubSeq(a, 1, Len(a) - 1))

RECURSIVE BitLenInt(_)
BitLenInt(x) == IF x = 0 THEN 0 ELSE 1 + BitLenInt(x \div 2)

LimbBits == BitLenInt(Base) - 1

BitLen(a) == IF a = << >> THEN 0 ELSE LimbBits * (Len(a) - 1) + BitLenInt(a[Len(a)])

\* a * n + c, for n < Base
RECURSIVE MulSmall(_, _, _)
MulSmall(a, n, c) ==
    IF a = << >> THEN NatToLimbs(c)
    ELSE LET t == a[1] * n + c
         IN  <<t % Base>> \o MulSmall(Tail(a), n, t \div Base)

RECURSIVE AddNat(_, _, _)
AddNat(a, b, c) ==
    IF a = << >> /\ b = << >> THEN NatToLimbs(c)
    ELSE LET x == IF a = << >> THEN 0 ELSE a[1]
             y == IF b = << >> THEN 0 ELSE b[1]
             t == x + y + c
         IN  <<t % Base>> \o AddNat(IF a = << >> THEN a ELSE Tail(a),
                                    IF b = << >> THEN b ELSE Tail(b), t \div Base)

\* a - b - c, for a >= b + c; the result is not trimmed
RECURSIVE SubNat(_, _, _)
SubNat(a, b, c) ==
    IF a = << >> THEN << >>
    ELSE LET y == IF b = << >> THEN 0 ELSE b[1]
             t == a[1] - y - c
         IN  <<IF t < 0 THEN t + Base ELSE t>>
             \o SubNat(Tail(a), IF b = << >> THEN b ELSE Tail(b), IF t < 0 THEN 1 ELSE 0)

\* quotient (not trimmed) and remainder of a by n, for n < 2^17
RECURSIVE DivSmall(_, _)
DivSmall(a, n) ==
    IF a = << >> THEN [q |-> << >>, r |-> 0]
    ELSE LET d == DivSmall(Tail(a), n)
             t == d.r * Base + a[1]
         IN  [q |-> <<t \div n>> \o d.q, r |-> t % n]

LessNat(a, b) ==
    \/ Len(a) < Len(b)
    \/ /\ Len(a) = Len(b)
       /\ \E i \in 1..Len(a) :
            a[i] < b[i] /\ \A j \in (i + 1)..Len(a) : a[j] = b[j]

\* a * 2^s
ShiftLeft(a, s) ==
    IF a = << >> THEN a
    ELSE [i \in 1..(s \div LimbBits) |-> 0] \o MulSmall(a, 2^(s % LimbBits), 0)

\* floor(a / 2^s), and whether a bit was shifted out
ShiftRight(a, s) ==
    LET k == s \div LimbBits
        d == DivSmall(SubSeq(a, k + 1, Len(a)), 2^(s % LimbBits))
    IN  [q |-> Trim(d.q), inexact |-> d.r # 0 \/ \E i \in 1..k : a[i] # 0]

FZero == [m |-> << >>, e |-> 0]

\* the float nearest to a * 2^e (plus a positive amount below 2^e when
\* sticky), ties to even
Round(a, e, sticky) ==
    LET n == BitLen(a)
    IN  IF n = 0 THEN FZero
        ELSE IF n <= MantissaBits
        THEN [m |-> ShiftLeft(a, MantissaBits - n), e |-> e - (MantissaBits - n)]
        ELSE LET d    == n - MantissaBits
                 s    == ShiftRight(a, d - 1)
                 h    == DivSmall(s.q, 2)
                 keep == Trim(h.q)
                 rest == sticky \/ s.inexact
                 up   == h.r = 1 /\ (rest \/ keep[1] % 2 = 1)
                 inc  == IF up THEN AddNat(keep, <<1>>, 0) ELSE keep
             IN  IF BitLen(inc) > MantissaBits
                 THEN [m |-> Trim(DivSmall(inc, 2).q), e |-> e + d + 1]
                 ELSE [m |-> inc, e |-> e + d]

\* float(n)
FromInt(n) == Round(NatToLimbs(n), 0, FALSE)

\* float * int
FMul(f, n) ==
    IF f = FZero \/ n = 0 THEN FZero
    ELSE Round(MulSmall(f.m, n, 0), f.e, FALSE)

\* float + float
FAdd(f, g) ==
    IF f = FZero THEN g
    ELSE IF g = FZero THEN f
    ELSE LET lo == IF f.e <= g.e THEN f.e ELSE g.e
         IN  Round(AddNat(ShiftLeft(f.m, f.e - lo), ShiftLeft(g.m, g.e - lo), 0),
                   lo, FALSE)

\* float / int, for 0 < n < 2^17: two more limbs of quotient than the
\* rounding needs
FDiv(f, n) ==
    IF f = FZero THEN FZero
    ELSE LET d == DivSmall(<<0, 0>> \o f.m, n)
         IN  Round(Trim(d.q), f.e - 2 * LimbBits, d.r # 0)

\* f < g
FLess(f, g) ==
    IF g = FZero THEN FALSE
    ELSE IF f = FZero THEN TRUE
    ELSE IF f.e # g.e THEN f.e < g.e
    ELSE LessNat(f.m, g.m)

\* |f - g| <= max(f, g) * 2^-k, computed exactly
FClose(f, g, k) ==
    IF f = g THEN TRUE
    ELSE IF f = FZero \/ g = FZero THEN FALSE
    ELSE LET hi == IF FLess(f, g) THEN g ELSE f
             lw == IF FLess(f, g) THEN f ELSE g
             lo == IF hi.e <= lw.e THEN hi.e ELSE lw.e
             a  == ShiftLeft(hi.m, hi.e - lo)
             b  == ShiftLeft(lw.m, lw.e - lo)
             d  == ShiftLeft(Trim(SubNat(a, b, 0)), k)
         IN  ~LessNat(a, d)

(***************************************************************************)
(* The inputs of the model.                                                *)
(***************************************************************************)
Items == {"Pen", "Ink"}

\* a price written with one decimal, t/10, as the float Python reads
Tenths(t) == FDiv(FromInt(t), 10)

\* Item(name) @ price * quantity
Sale(name, price, quantity) == [name |-> name, price |-> price, quantity |-> quantity]

\* what is bought: a pen at 0.5, two pens at 0.6, an ink at 0.5
PurchaseOrders ==
    {Sale("Pen", Tenths(5), 1), Sale("Pen", Tenths(6), 2), Sale("Ink", Tenths(5), 1)}

\* what is asked for: any item, none to three at a time
SaleOrders == {Sale(n, Tenths(12), q) : n \in Items, q \in 0..3}

Amounts == {FromInt(2)}

\* what is added to a Stack: Stack().add(1, 3), Stack().add(2, 2) and a lot
\* of nothing, Stack().add(2, 0)
StackLots ==
    {[purchase_price |-> FromInt(1), quantity |-> 3],
     [purchase_price |-> FromInt(2), quantity |-> 2],
     [purchase_price |-> FromInt(2), quantity |-> 0]}

\* what is taken from a Stack at a time
Takes == {0, 1, 2, 4}

\* Catalog.register(description, code, n_chars): what is registered, under
\* which code (None, "", "a" and "x"), with how many characters asked for
Descriptions == {"Pen", "Ink"}

None == <<"None">>

Codes == {None, << >>, <<"a">>, <<"x">>}

NChars == {0, 1, 3}

\* the characters of a uuid, and its length in place of 36
Hex == {"a", "b"}

UuidChars == 2

\* the attempts after which issue_code is to raise an error
MaxAttempts == 10

InitialCash == 1    \* the cash a ledger is said to start with
MaxBatches  == 3    \* Batch objects ever created
MaxParcels  == 2    \* Parcels in the sale history
MaxExpenses == 1    \* Expenses in the expense history
MaxRegistrations == 3    \* register calls that returned

VARIABLES
    heap,       \* the Batch objects, by identity: heap[id] = [purchase_price, quantity]
    hold,       \* Inventory.hold: item name -> list of Batch identities
    fulfilled,  \* Inventory.fulfilled: list of Parcels [name, price, batches]
    spent,      \* Inventory.spent: list of Expenses [amount, description]
    purchases,  \* the buy calls made so far, in order: [name, price, quantity]
    orders,     \* the sell calls that recorded a Parcel, in order, likewise
    stack,      \* Stack.batches: deque of Batch identities
    returned,   \* the list the last take_first or take_last returned
    data,       \* Catalog.data: code -> description
    pc,         \* where the Catalog is: "idle", or in the loop of "issue_code"
    call,       \* the register call under way or last made: its arguments
                \* (description, given, n_chars) and its local code
    registered,     \* the name of the Item the last register returned
    registrations,  \* the register calls that returned so far
    attempts        \* the codes issue_code has drawn in the call under way

catalog == <<data, pc, call, registered, registrations, attempts>>

vars == <<heap, hold, fulfilled, spent, purchases, orders, stack, returned, catalog>>

(***************************************************************************)
(* Values.                                                                 *)
(***************************************************************************)
Batch(purchase_price, quantity) ==
    [purchase_price |-> purchase_price, quantity |-> quantity]

Parcel(name, price, batches) ==
    [name |-> name, price |-> price, batches |-> batches]

Expense(amount, description) ==
    [amount |-> amount, description |-> description]

\* an Inventory and the Batch objects it refers to
Inventory(h, hd, parcels, sp) ==
    [heap |-> h, hold |-> hd, fulfilled |-> parcels, spent |-> sp]

\* sum(...) over the first n ints of s, as Python's sum: from 0, left to right
RECURSIVE SumInt(_, _)
SumInt(s, n) == IF n = 0 THEN 0 ELSE SumInt(s, n - 1) + s[n]

\* sum(...) over floats: from 0, left to right, each addition rounded
RECURSIVE SumFloat(_, _)
SumFloat(s, n) == IF n = 0 THEN FZero ELSE FAdd(SumFloat(s, n - 1), s[n])

\* Parcel.quantity
ParcelQuantity(h, p) ==
    SumInt([i \in 1..Len(p.batches) |-> h[p.batches[i]].quantity], Len(p.batches))

\* Parcel.cogs
ParcelCogs(h, p) ==
    SumFloat([i \in 1..Len(p.batches) |->
                 FMul(h[p.batches[i]].purchase_price, h[p.batches[i]].quantity)],
             Len(p.batches))

\* Inventory.revenue, over Inventory.sales: Sale.revenue of every Parcel.sale
Revenue(inv) ==
    SumFloat([i \in 1..Len(inv.fulfilled) |->
                 FMul(inv.fulfilled[i].price, ParcelQuantity(inv.heap, inv.fulfilled[i]))],
             Len(inv.fulfilled))

\* Inventory.cogs
Cogs(inv) ==
    SumFloat([i \in 1..Len(inv.fulfilled) |-> ParcelCogs(inv.heap, inv.fulfilled[i])],
             Len(inv.fulfilled))

\* Inventory.expenses
Expenses(inv) ==
    SumFloat([i \in 1..Len(inv.spent) |-> inv.spent[i].amount], Len(inv.spent))

\* Inventory.total
Total(inv, name) ==
    IF name \notin DOMAIN inv.hold \/ inv.hold[name] = << >> THEN 0
    ELSE SumInt([i \in 1..Len(inv.hold[name]) |-> inv.heap[inv.hold[name][i]].quantity],
                Len(inv.hold[name]))

(***************************************************************************)
(* Inventory.sell: the two guards and the FIFO loop.                       *)
(***************************************************************************)
\* the first guard lets the order through: the item has lots
InStock(inv, name) == ~(name \notin DOMAIN inv.hold \/ inv.hold[name] = << >>)

\* the second guard left out
EnoughUnchecked(inv, name, quantity) == TRUE

\* the second guard lets the order through: the lots cover the quantity
Enough(inv, name, quantity) == ~(Total(inv, name) < quantity)

\* < for <=
TakenWholeStrict(batch_quantity, remaining_quantity) == batch_quantity < remaining_quantity

\* the front batch goes to the Parcel whole
TakenWhole(batch_quantity, remaining_quantity) == batch_quantity <= remaining_quantity

\* the front batch left as it was
SplitRemainderKept(batch_quantity, remaining_quantity) == batch_quantity

\* the quantity a split leaves in the front batch
SplitRemainder(batch_quantity, remaining_quantity) == batch_quantity - remaining_quantity

\* the front batch itself handed to the Parcel, no new Batch made
SplitAliased(h, current_batch, remaining_quantity) ==
    [heap          |-> [h EXCEPT ![current_batch].quantity =
                           SplitRemainder(@, remaining_quantity)],
     partial_batch |-> current_batch]

\* the else branch of the loop: a new Batch object for the Parcel, and the
\* front batch reduced in place
Split(h, current_batch, remaining_quantity) ==
    [heap          |-> Append(
         [h EXCEPT ![current_batch].quantity = SplitRemainder(@, remaining_quantity)],
         Batch(h[current_batch].purchase_price, remaining_quantity)),
     partial_batch |-> Len(h) + 1]

\* the while loop: lots is hold[name], h the heap, batches the Parcel's list
RECURSIVE SellLoop(_, _, _, _)
SellLoop(lots, h, remaining_quantity, batches) ==
    IF ~(remaining_quantity > 0 /\ lots # << >>)
    THEN [lots |-> lots, heap |-> h, batches |-> batches]
    ELSE LET current_batch == lots[1]
         IN  IF TakenWhole(h[current_batch].quantity, remaining_quantity)
             THEN SellLoop(Tail(lots), h,
                           remaining_quantity - h[current_batch].quantity,
                           Append(batches, current_batch))
             ELSE LET s == Split(h, current_batch, remaining_quantity)
                  IN  [lots    |-> lots,
                       heap    |-> s.heap,
                       batches |-> Append(batches, s.partial_batch)]

\* Inventory.sell: the Inventory it leaves, and the exception it raises
Sell(inv, name, price, quantity) ==
    IF ~InStock(inv, name) THEN [inv |-> inv, raised |-> "none"]
    ELSE IF ~Enough(inv, name, quantity) THEN [inv |-> inv, raised |-> "none"]
    ELSE LET r == SellLoop(inv.hold[name], inv.heap, quantity, << >>)
         IN  [inv    |-> Inventory(r.heap,
                                   [inv.hold EXCEPT ![name] = r.lots],
                                   Append(inv.fulfilled, Parcel(name, price, r.batches)),
                                   inv.spent),
              raised |-> "none"]

\* the batch put in front
BoughtAtFront(lots, batch) == <<batch>> \o lots

\* the list buy leaves in hold[name]
Bought(lots, batch) == Append(lots, batch)

\* Inventory.buy; item.batch is a new Batch object
Buy(inv, name, price, quantity) ==
    [inv    |-> Inventory(Append(inv.heap, Batch(price, quantity)),
                          IF name \notin DOMAIN inv.hold
                          THEN inv.hold @@ (name :> Bought(<< >>, Len(inv.heap) + 1))
                          ELSE [inv.hold EXCEPT ![name] = Bought(@, Len(inv.heap) + 1)],
                          inv.fulfilled,
                          inv.spent),
     raised |-> "none"]

\* Inventory.pay
Pay(inv, amount, text) ==
    [inv    |-> Inventory(inv.heap, inv.hold, inv.fulfilled,
                          Append(inv.spent, Expense(amount, text))),
     raised |-> "none"]

(***************************************************************************)
(* The operations of Inventory.  purchases and orders are the history of   *)
(* the calls: every buy, and every sell that recorded a Parcel.            *)
(***************************************************************************)
Self == Inventory(heap, hold, fulfilled, spent)

Init ==
    /\ heap = << >>
    /\ hold = << >>
    /\ fulfilled = << >>
    /\ spent = << >>
    /\ purchases = << >>
    /\ orders = << >>
    /\ stack = << >>
    /\ returned = << >>
    /\ data = << >>
    /\ pc = "idle"
    /\ call = [description |-> "", given |-> None, n_chars |-> 0, code |-> None]
    /\ registered = None
    /\ registrations = 0
    /\ attempts = 0

Becomes(inv) ==
    /\ Len(inv.heap) <= MaxBatches
    /\ Len(inv.fulfilled) <= MaxParcels
    /\ Len(inv.spent) <= MaxExpenses
    /\ heap' = inv.heap
    /\ hold' = inv.hold
    /\ fulfilled' = inv.fulfilled
    /\ spent' = inv.spent
    /\ UNCHANGED <<stack, returned, catalog>>

buy(name, price, quantity) ==
    /\ Becomes(Buy(Self, name, price, quantity).inv)
    /\ purchases' = Append(purchases, Sale(name, price, quantity))
    /\ UNCHANGED orders

sell(name, price, quantity) ==
    /\ Becomes(Sell(Self, name, price, quantity).inv)
    /\ orders' = IF Len(fulfilled') > Len(fulfilled)
                 THEN Append(orders, Sale(name, price, quantity))
                 ELSE orders
    /\ UNCHANGED purchases

pay(amount, text) ==
    /\ Becomes(Pay(Self, amount, text).inv)
    /\ UNCHANGED <<purchases, orders>>

Next ==
    \/ \E item \in PurchaseOrders : buy(item.name, item.price, item.quantity)
    \/ \E order \in SaleOrders : sell(order.name, order.price, order.quantity)
    \/ \E amount \in Amounts : pay(amount, "fee")

Spec == Init /\ [][Next]_vars

(***************************************************************************)
(* Stack: a deque of Batch objects, taken from either end, and averaged.   *)
(***************************************************************************)
\* Stack.quantity
Quantity(h, bs) == SumInt([i \in 1..Len(bs) |-> h[bs[i]].quantity], Len(bs))

\* Stack.worth
Worth(h, bs) ==
    SumFloat([i \in 1..Len(bs) |-> FMul(h[bs[i]].purchase_price, h[bs[i]].quantity)],
             Len(bs))

\* the price of the first batch for the average
AveragePriceOfFirst(h, bs) ==
    IF Quantity(h, bs) = 0 THEN FZero ELSE h[bs[1]].purchase_price

\* Stack.average_price
AveragePrice(h, bs) ==
    IF Quantity(h, bs) = 0 THEN FZero ELSE FDiv(Worth(h, bs), Quantity(h, bs))

\* Stack.equalize_prices: the heap it leaves
EqualizePrices(h, bs) ==
    LET price == AveragePrice(h, bs)
    IN  [id \in 1..Len(h) |->
            IF \E i \in 1..Len(bs) : bs[i] = id
            THEN [h[id] EXCEPT !.purchase_price = price]
            ELSE h[id]]

\* the batch left as it was
TakePartRemainderKept(h, current_batch, quantity) ==
    Append(h, Batch(h[current_batch].purchase_price, quantity))

\* the else branch of Stack._take: a new Batch object to hand out, and the
\* batch reduced in place
TakePart(h, current_batch, quantity) ==
    Append([h EXCEPT ![current_batch].quantity = @ - quantity],
           Batch(h[current_batch].purchase_price, quantity))

\* Stack._take: index 0 with popleft, index -1 with pop
RECURSIVE Take(_, _, _, _, _)
Take(h, bs, quantity, index, taken) ==
    IF ~(quantity > 0 /\ bs # << >>)
    THEN [heap |-> h, batches |-> bs, taken |-> taken]
    ELSE LET current_batch == IF index = 0 THEN bs[1] ELSE bs[Len(bs)]
         IN  IF h[current_batch].quantity <= quantity
             THEN Take(h,
                       IF index = 0 THEN Tail(bs) ELSE SubSeq(bs, 1, Len(bs) - 1),
                       quantity - h[current_batch].quantity,
                       index,
                       Append(taken, current_batch))
             ELSE [heap    |-> TakePart(h, current_batch, quantity),
                   batches |-> bs,
                   taken   |-> Append(taken, Len(h) + 1)]

\* Stack.take_first
TakeFirst(h, bs, quantity) == Take(h, bs, quantity, 0, << >>)

\* index 0 with popleft, as take_first
TakeLastFromFront(h, bs, quantity) == Take(h, bs, quantity, 0, << >>)

\* Stack.take_last
TakeLast(h, bs, quantity) == Take(h, bs, quantity, -1, << >>)

\* the lot added to the last batch, no Batch made
AddMerged(h, bs, p, q) ==
    IF bs = << >>
    THEN [heap |-> Append(h, Batch(p, q)), batches |-> Append(bs, Len(h) + 1)]
    ELSE [heap    |-> [h EXCEPT ![bs[Len(bs)]].quantity = @ + q],
          batches |-> bs]

\* Stack.add: a new Batch object at the right end of the deque
Add(h, bs, p, q) ==
    [heap |-> Append(h, Batch(p, q)), batches |-> Append(bs, Len(h) + 1)]

add(p, q) ==
    /\ Len(heap) < MaxBatches
    /\ heap' = Add(heap, stack, p, q).heap
    /\ stack' = Add(heap, stack, p, q).batches
    /\ UNCHANGED <<hold, fulfilled, spent, purchases, orders, returned, catalog>>

Taking(r) ==
    /\ Len(r.heap) <= MaxBatches
    /\ heap' = r.heap
    /\ stack' = r.batches
    /\ returned' = r.taken
    /\ UNCHANGED <<hold, fulfilled, spent, purchases, orders, catalog>>

take_first(quantity) == Taking(TakeFirst(heap, stack, quantity))

take_last(quantity) == Taking(TakeLast(heap, stack, quantity))

equalize_prices ==
    /\ heap' = EqualizePrices(heap, stack)
    /\ UNCHANGED <<hold, fulfilled, spent, purchases, orders, stack, returned, catalog>>

NextStack ==
    \/ \E lot \in StackLots : add(lot.purchase_price, lot.quantity)
    \/ \E quantity \in Takes : take_first(quantity)
    \/ \E quantity \in Takes : take_last(quantity)
    \/ equalize_prices

SpecStack == Init /\ [][NextStack]_vars

(***************************************************************************)
(* Catalog: codes issued from uuids, and descriptions registered under     *)
(* them.  A code is a sequence of characters.                              *)
(***************************************************************************)
Min(a, b) == IF a <= b THEN a ELSE b

\* uuid.uuid4() as a string: any of them
Uuids == [1..UuidChars -> Hex]

\* issue_uuid(n_chars): the codes it may return
issue_uuid(n_chars) == {SubSeq(u, 1, Min(n_chars, UuidChars)) : u \in Uuids}

\* not code
Falsy(code) == code = None \/ code = << >>

\* the test of register: a code is to be issued
Reissue(d, code) == Falsy(code) \/ code \in DOMAIN d

\* the loop of issue_code never entered
CollidesNever(d, code) == FALSE

\* the test of the loop of issue_code
Collides(d, code) == code \in DOMAIN d

\* self.data[code] = description
Store(d, code, description) ==
    [k \in DOMAIN d \cup {code} |-> IF k = code THEN description ELSE d[k]]

\* the end of register: the description stored, Item(code) returned
Registers(code, description) ==
    /\ data' = Store(data, code, description)
    /\ registered' = code
    /\ registrations' = registrations + 1

\* Catalog.register, up to the first line of issue_code when a code is issued
register(description, code, n_chars) ==
    /\ pc = "idle"
    /\ registrations < MaxRegistrations
    /\ IF Reissue(data, code)
       THEN /\ \E u \in issue_uuid(n_chars) :
                   call' = [description |-> description, given |-> code,
                            n_chars |-> n_chars, code |-> u]
            /\ pc' = "issue_code"
            /\ attempts' = 1
            /\ UNCHANGED <<data, registered, registrations>>
       ELSE /\ call' = [description |-> description, given |-> code,
                        n_chars |-> n_chars, code |-> code]
            /\ Registers(code, description)
            /\ attempts' = 0
            /\ UNCHANGED pc
    /\ UNCHANGED <<heap, hold, fulfilled, spent, purchases, orders, stack, returned>>

\* Catalog.issue_code: one test of the loop, then another uuid or the return
\* to register.  The loop has no count of its own: attempts counts for it,
\* up to one past MaxAttempts.
issue_code ==
    /\ pc = "issue_code"
    /\ IF Collides(data, call.code)
       THEN /\ \E u \in issue_uuid(call.n_chars) : call' = [call EXCEPT !.code = u]
            /\ attempts' = Min(attempts + 1, MaxAttempts + 1)
            /\ UNCHANGED <<pc, data, registered, registrations>>
       ELSE /\ Registers(call.code, call.description)
            /\ pc' = "idle"
            /\ attempts' = 0
            /\ UNCHANGED call
    /\ UNCHANGED <<heap, hold, fulfilled, spent, purchases, orders, stack, returned>>

NextCatalog ==
    \/ \E description \in Descriptions, code \in Codes, n_chars \in NChars :
           register(description, code, n_chars)
    \/ issue_code

SpecCatalog == Init /\ [][NextCatalog]_vars

(***************************************************************************)
(* What the claims speak of, stated apart from the code's own helpers.     *)
(***************************************************************************)
\* the quantities of the batches ids, in the heap h
QuantitiesOf(h, ids) == [i \in 1..Len(ids) |-> h[ids[i]].quantity]

RECURSIVE Prefix(_, _)
Prefix(qs, k) == IF k = 0 THEN 0 ELSE Prefix(qs, k - 1) + qs[k]

Lots(inv, name) == IF name \in DOMAIN inv.hold THEN inv.hold[name] ELSE << >>

\* the on-hand total of an item
OnHand(inv, name) ==
    Prefix(QuantitiesOf(inv.heap, Lots(inv, name)), Len(Lots(inv, name)))

\* the quantity of an item in all the fragments of all recorded Parcels
SoldQuantity(inv, name) ==
    Prefix([i \in 1..Len(inv.fulfilled) |->
               IF inv.fulfilled[i].name = name
               THEN Prefix(QuantitiesOf(inv.heap, inv.fulfilled[i].batches),
                           Len(inv.fulfilled[i].batches))
               ELSE 0],
           Len(inv.fulfilled))

\* the quantity of an item ever bought
BoughtQuantity(name) ==
    Prefix([i \in 1..Len(purchases) |->
               IF purchases[i].name = name THEN purchases[i].quantity ELSE 0],
           Len(purchases))

Range(s) == {s[i] : i \in 1..Len(s)}

\* C1: conservation of quantity. After any sequence of buys and sells, for
\* every item, the quantities of the lots still held plus the quantities of
\* all fragments of all recorded Parcels of the item add up to all that was
\* ever bought of it.
C1_Conservation ==
    \A name \in Items :
        OnHand(Self, name) + SoldQuantity(Self, name) = BoughtQuantity(name)

\* a lot was split by one sale and the rest of it stayed in stock
C1_Witness ==
    \E name \in Items :
        /\ OnHand(Self, name) > 0
        /\ SoldQuantity(Self, name) > 0
        /\ Len(heap) > Len(purchases)

\* the Inventory a sell of the order leaves, from the present one
AfterSell(order) == Sell(Self, order.name, order.price, order.quantity)

\* the order is for an item that has lots, and they cover it
Fillable(inv, order) ==
    /\ Lots(inv, order.name) # << >>
    /\ order.quantity <= OnHand(inv, order.name)

\* FIFO consumption of q = order.quantity from the lots of the item, whose
\* quantities are qs: the first k lots are the shortest prefix that covers
\* q; those before the k-th go to the Parcel as they are and leave the
\* sequence; the k-th does too when the prefix is exactly q, and otherwise
\* it is split: the Parcel gets a new fragment of what is still missing at
\* the lot's price, and the lot stays at the front, reduced by as much.
\* Nothing else changes.
Fifo(inv, order, out) ==
    LET lots   == inv.hold[order.name]
        qs     == QuantitiesOf(inv.heap, lots)
        q      == order.quantity
        k      == CHOOSE n \in 0..Len(lots) :
                      Prefix(qs, n) >= q /\ \A j \in 0..(n - 1) : Prefix(qs, j) < q
        whole  == IF Prefix(qs, k) = q THEN k ELSE k - 1
        parcel == out.fulfilled[Len(out.fulfilled)]
    IN  /\ out.fulfilled = Append(inv.fulfilled, parcel)
        /\ out.spent = inv.spent
        /\ parcel.name = order.name
        /\ parcel.price = order.price
        /\ SubSeq(parcel.batches, 1, whole) = SubSeq(lots, 1, whole)
        /\ out.hold = [inv.hold EXCEPT ![order.name] = SubSeq(lots, whole + 1, Len(lots))]
        /\ \A id \in DOMAIN inv.heap : id # lots[k] => out.heap[id] = inv.heap[id]
        /\ IF whole = k
           THEN /\ Len(parcel.batches) = k
                /\ out.heap = inv.heap
           ELSE /\ Len(parcel.batches) = k
                /\ parcel.batches[k] \notin DOMAIN inv.heap
                /\ DOMAIN out.heap = DOMAIN inv.heap \cup {parcel.batches[k]}
                /\ out.heap[parcel.batches[k]] =
                       Batch(inv.heap[lots[k]].purchase_price, q - Prefix(qs, k - 1))
                /\ out.heap[lots[k]] =
                       Batch(inv.heap[lots[k]].purchase_price, Prefix(qs, k) - q)

\* C2: FIFO consumption. A sell of q, 0 < q <= on-hand total, consumes the
\* item's lots from the front: every lot no larger than what is still to
\* fill goes to the Parcel whole and is removed, the first larger one is
\* split (fragment of exactly the rest at the lot's price, lot kept at the
\* front with its quantity reduced), the lots behind are untouched.
C2_FifoConsumption ==
    \A order \in SaleOrders :
        (order.quantity > 0 /\ Fillable(Self, order))
            => Fifo(Self, order, AfterSell(order).inv)

\* the last sale took one lot whole and split the next one: the history ends
\* with a Parcel of two fragments, and the lot behind them is still in stock
\* with what the second fragment left of it
C2_Witness ==
    /\ fulfilled # << >>
    /\ LET parcel == fulfilled[Len(fulfilled)]
       IN  /\ Len(parcel.batches) = 2
           /\ parcel.batches[2] = Len(heap)
           /\ Lots(Self, parcel.name) # << >>
           /\ heap[Lots(Self, parcel.name)[1]].purchase_price
                  = heap[parcel.batches[2]].purchase_price
           /\ heap[Lots(Self, parcel.name)[1]].quantity = 1
           /\ \E order \in SaleOrders :
                  order.name = parcel.name /\ order.quantity > 0 /\ Fillable(Self, order)

\* C3: no change on a failed sell. A sell for an item without lots, or for
\* more than its on-hand total, leaves every lot sequence, every Batch, the
\* Parcel history and the Expense history as they were.
C3_FailedSellChangesNothing ==
    \A order \in SaleOrders :
        ~Fillable(Self, order) => AfterSell(order).inv = Self

\* an item is in stock next to a recorded Parcel and an Expense, and an order
\* asks for more of it than there is; another item has no lots at all
C3_Witness ==
    /\ fulfilled # << >>
    /\ spent # << >>
    /\ \E order \in SaleOrders :
           /\ Lots(Self, order.name) # << >>
           /\ OnHand(Self, order.name) < order.quantity
    /\ \E order \in SaleOrders : order.name \notin DOMAIN hold

\* C4: a failed sell is reported, and the two failures are told apart: an
\* item key that was never bought fails with NotInStock, a known item with
\* less on hand than asked for fails with InsufficientStock.
C4_SellReportsFailure ==
    \A order \in SaleOrders :
        /\ order.name \notin DOMAIN hold
               => AfterSell(order).raised = "NotInStock"
        /\ (order.name \in DOMAIN hold /\ OnHand(Self, order.name) < order.quantity)
               => AfterSell(order).raised = "InsufficientStock"

\* The cash of the ledger as the claims define it: what it started with,
\* less the cost of the buys and the expenses, plus unit_price * quantity of
\* the sells.  Inventory has no such field; income and spending are compared.
Income(inv) == FAdd(FromInt(InitialCash), Revenue(inv))

Spending(inv) ==
    FAdd(SumFloat([i \in 1..Len(purchases) |->
                      FMul(purchases[i].price, purchases[i].quantity)],
                  Len(purchases)),
         Expenses(inv))

\* amount <= cash
CashCovers(inv, amount) == ~FLess(Income(inv), FAdd(Spending(inv), amount))

\* C5: strict cash enforcement. A buy that costs more than the cash, and a
\* pay of more than the cash, fails with InsufficientFunds and changes
\* nothing; a buy that the cash covers succeeds and appends its lot.
C5_StrictCash ==
    /\ \A item \in PurchaseOrders :
           LET out == Buy(Self, item.name, item.price, item.quantity)
           IN  IF CashCovers(Self, FMul(item.price, item.quantity))
               THEN /\ out.raised = "none"
                    /\ Lots(out.inv, item.name)
                           = Append(Lots(Self, item.name), Len(heap) + 1)
                    /\ out.inv.heap[Len(heap) + 1] = Batch(item.price, item.quantity)
               ELSE /\ out.raised = "InsufficientFunds"
                    /\ out.inv = Self
    /\ \A amount \in Amounts :
           ~CashCovers(Self, amount)
               => /\ Pay(Self, amount, "fee").raised = "InsufficientFunds"
                  /\ Pay(Self, amount, "fee").inv = Self

\* C6: the cash invariant. In every state reached by buy, sell and pay from
\* a ledger created with cash c0 >= 0, the cash (c0 less buys and expenses
\* plus sells) is not negative.
C6_CashNeverNegative == CashCovers(Self, FZero)

\* C7: every Parcel of the history holds exactly the quantity its sell asked
\* for: a sell records a Parcel only when the lots cover the order, and then
\* the fragments add up to the order's quantity.
C7_ParcelFillsOrder ==
    /\ Len(orders) = Len(fulfilled)
    /\ \A i \in 1..Len(fulfilled) :
           Prefix(QuantitiesOf(heap, fulfilled[i].batches), Len(fulfilled[i].batches))
               = orders[i].quantity
    /\ \A order \in SaleOrders :
           LET out == AfterSell(order).inv
           IN  out.fulfilled # fulfilled
                   => /\ order.quantity <= OnHand(Self, order.name)
                      /\ Len(out.fulfilled) = Len(fulfilled) + 1
                      /\ Prefix(QuantitiesOf(out.heap, out.fulfilled[Len(out.fulfilled)].batches),
                                Len(out.fulfilled[Len(out.fulfilled)].batches))
                             = order.quantity

\* two sales are on record, one of them filled from two lots, and an order
\* for more than is left would not be recorded
C7_Witness ==
    /\ Len(fulfilled) = 2
    /\ \E i \in 1..2 : Len(fulfilled[i].batches) = 2 /\ orders[i].quantity = 3
    /\ \E order \in SaleOrders :
           Lots(Self, order.name) # << >> /\ OnHand(Self, order.name) < order.quantity

\* the lots of an item with their prices and quantities
LotValues(inv, name) ==
    [i \in 1..Len(Lots(inv, name)) |-> inv.heap[Lots(inv, name)[i]]]

\* how much of a lot now in stock is gone from it in inv
ConsumedFrom(inv, name, lot) ==
    heap[lot].quantity
        - (IF lot \in Range(Lots(inv, name)) THEN inv.heap[lot].quantity ELSE 0)

\* selling q1 and then q2 of an item, and selling q1 + q2 at once
SoldInTwo(name, q1, q2) ==
    Sell(Sell(Self, name, Tenths(12), q1).inv, name, Tenths(12), q2).inv

SoldInOne(name, q) == Sell(Self, name, Tenths(12), q).inv

\* both leave the same lot sequence and took the same quantity from each lot
SameConsumption(a, b, name) ==
    /\ Lots(a, name) = Lots(b, name)
    /\ LotValues(a, name) = LotValues(b, name)
    /\ \A lot \in Range(Lots(Self, name)) :
           ConsumedFrom(a, name, lot) = ConsumedFrom(b, name, lot)
    /\ SoldQuantity(a, name) = SoldQuantity(b, name)

\* the splits of an order of an item that the lots cover
TwoSales(name) ==
    {s \in (1..OnHand(Self, name)) \X (1..OnHand(Self, name)) :
        s[1] + s[2] <= OnHand(Self, name)}

\* the relative tolerance 2^-30 < 1e-9, that of the tests' math.isclose
ToleranceBits == 30

\* C8 as amended: selling q1 and then q2 (q1, q2 > 0, q1 + q2 <= on-hand
\* total) leaves the same lot sequence and takes the same quantity from each
\* purchase lot as selling q1 + q2 at once, and the two total COGS agree up
\* to float rounding (to a relative 2^-30).
C8_SplitSaleSameLots ==
    \A name \in Items : \A s \in TwoSales(name) :
        LET a == SoldInTwo(name, s[1], s[2])
            b == SoldInOne(name, s[1] + s[2])
        IN  SameConsumption(a, b, name) /\ FClose(Cogs(a), Cogs(b), ToleranceBits)

\* C8: FIFO order preservation. Selling q1 and then q2 leaves the same lot
\* sequence, the same consumed quantity per purchase lot and the same total
\* COGS as selling q1 + q2 in a single sell.
C8_SplitSaleSameCogs ==
    \A name \in Items : \A s \in TwoSales(name) :
        LET a == SoldInTwo(name, s[1], s[2])
            b == SoldInOne(name, s[1] + s[2])
        IN  SameConsumption(a, b, name) /\ Cogs(a) = Cogs(b)

\* an item has two lots at different prices, and three or more on hand: an
\* order of three can be split so that the first sale ends inside a lot
C8_Witness ==
    \E name \in Items :
        /\ Len(Lots(Self, name)) = 2
        /\ heap[Lots(Self, name)[1]].purchase_price
               # heap[Lots(Self, name)[2]].purchase_price
        /\ \E s \in TwoSales(name) : s[1] + s[2] = 3

\* no fragment of a Parcel is a lot of a live sequence
NoSharedBatch ==
    \A i \in 1..Len(fulfilled) : \A name \in DOMAIN hold :
        Range(fulfilled[i].batches) \cap Range(hold[name]) = {}

\* a Parcel with its fragments' prices and quantities
ParcelValue(h, p) ==
    [name |-> p.name, price |-> p.price,
     batches |-> [i \in 1..Len(p.batches) |-> h[p.batches[i]]]]

\* a step keeps every recorded Parcel as it is, in its place
HistoryKept ==
    /\ Len(fulfilled') >= Len(fulfilled)
    /\ \A i \in 1..Len(fulfilled) :
           /\ fulfilled'[i] = fulfilled[i]
           /\ ParcelValue(heap', fulfilled'[i]) = ParcelValue(heap, fulfilled[i])
           /\ ParcelCogs(heap', fulfilled'[i]) = ParcelCogs(heap, fulfilled[i])

\* C9: the sale history is immutable. A recorded Parcel keeps its name, its
\* price and its fragments' prices and quantities, hence its COGS, under
\* every later buy, sell and pay; the history only grows at the end; and no
\* fragment of a Parcel is the same object as a lot still in a lot sequence.
C9_HistoryImmutable == []NoSharedBatch /\ [][HistoryKept]_vars

\* a lot was split for one Parcel, and what was left of it, reduced in
\* place, went to the next Parcel; then the item was bought again
C9_Witness ==
    /\ Len(fulfilled) = 2
    /\ fulfilled[1].batches = <<2>>
    /\ fulfilled[2].batches = <<1>>
    /\ Lots(Self, fulfilled[1].name) = <<3>>
(***************************************************************************)
(* C10: weighted-average convergence.                                      *)
(***************************************************************************)
\* the Batch objects as equalize_prices would leave them now
Equalized == EqualizePrices(heap, stack)

\* every batch of the Stack at worth / quantity, as taken before the call,
\* and every quantity as it was
PricedAtAverage ==
    \A i \in 1..Len(stack) :
        /\ Equalized[stack[i]].purchase_price =
               FDiv(Worth(heap, stack), Quantity(heap, stack))
        /\ Equalized[stack[i]].quantity = heap[stack[i]].quantity

\* C10 as amended: on a Stack of positive quantity, equalize_prices sets every
\* batch to one purchase_price, the float worth / quantity of the Stack
\* before the call, changes no quantity, and leaves a worth that equals the
\* worth before up to float rounding (relative difference at most 2^-30).
C10_EqualizeKeepsWorthRounded ==
    (stack # << >> /\ Quantity(heap, stack) > 0) =>
        /\ PricedAtAverage
        /\ FClose(Worth(Equalized, stack), Worth(heap, stack), ToleranceBits)

\* C10 as stated: the worth after equalize_prices is the worth before
C10_EqualizeKeepsWorth ==
    (stack # << >> /\ Quantity(heap, stack) > 0) =>
        /\ PricedAtAverage
        /\ Worth(Equalized, stack) = Worth(heap, stack)

\* three at 1 and two at 2 were added and equalized: both batches at 7/5
C10_Witness ==
    /\ Len(stack) = 2
    /\ heap[stack[1]] = Batch(FDiv(FromInt(7), 5), 3)
    /\ heap[stack[2]] = Batch(FDiv(FromInt(7), 5), 2)

(***************************************************************************)
(* C11: weighted-average collapse.                                         *)
(***************************************************************************)
\* the Stack after add(p, q) and equalize_prices
Averaged(lot) ==
    LET a == Add(heap, stack, lot.purchase_price, lot.quantity)
    IN  [heap |-> EqualizePrices(a.heap, a.batches), batches |-> a.batches]

\* the Stack before add(p, q), and its worth and quantity with the lot
WorthWith(lot) == FAdd(Worth(heap, stack), FMul(lot.purchase_price, lot.quantity))

QuantityWith(lot) == Quantity(heap, stack) + lot.quantity

\* C11 as amended: add followed by equalize_prices keeps every lot as a
\* batch of its own: the Stack has one batch more than before, the batches
\* it had keep their quantities and their order, the new batch is last with
\* the quantity added, and when the total quantity is positive every batch
\* is at the one price worth / quantity (buy 10 @ 1.00 then 10 @ 2.00 gives
\* 10 @ 1.50, 10 @ 1.50).
C11_AverageKeepsLots ==
    \A lot \in StackLots :
        LET r == Averaged(lot)
        IN  /\ Len(r.batches) = Len(stack) + 1
            /\ \A i \in 1..Len(stack) :
                   /\ r.batches[i] = stack[i]
                   /\ r.heap[stack[i]].quantity = heap[stack[i]].quantity
            /\ r.heap[r.batches[Len(r.batches)]].quantity = lot.quantity
            /\ QuantityWith(lot) > 0 =>
                   \A i \in 1..Len(r.batches) :
                       r.heap[r.batches[i]].purchase_price =
                           FDiv(WorthWith(lot), QuantityWith(lot))

\* C11 as stated: after the purchase the lots are one lot, of the total
\* quantity, at worth / quantity
C11_AverageCollapses ==
    \A lot \in StackLots :
        LET r == Averaged(lot)
        IN  /\ Len(r.batches) = 1
            /\ r.heap[r.batches[1]].quantity = QuantityWith(lot)
            /\ QuantityWith(lot) > 0 =>
                   r.heap[r.batches[1]].purchase_price =
                       FDiv(WorthWith(lot), QuantityWith(lot))

\* two at 2 and then three at 1 were added and averaged: two batches at 7/5
C11_Witness ==
    /\ Len(stack) = 2
    /\ heap[stack[1]] = Batch(FDiv(FromInt(7), 5), 2)
    /\ heap[stack[2]] = Batch(FDiv(FromInt(7), 5), 3)

(***************************************************************************)
(* C12: the availability precondition of take_first and take_last.         *)
(***************************************************************************)
\* a take of more than the Stack holds changes nothing and hands out nothing
Refused(r) == r.heap = heap /\ r.batches = stack /\ r.taken = << >>

\* C12: take_first(q) and take_last(q) with q greater than the Stack's total
\* quantity, an empty Stack included, leave the batches of the Stack as they
\* were and return no fragments.
C12_OverTakeRefused ==
    \A quantity \in Takes :
        quantity > Quantity(heap, stack)
            => /\ Refused(TakeFirst(heap, stack, quantity))
               /\ Refused(TakeLast(heap, stack, quantity))

(***************************************************************************)
(* C13: a sell of nothing.                                                 *)
(***************************************************************************)
\* C13: a sell with quantity 0 of an item that is in stock appends no Parcel
\* and changes no lot, and the sale history holds no Parcel without
\* fragments.
C13_ZeroSellIsNoOp ==
    /\ \A order \in SaleOrders :
           (order.quantity = 0 /\ InStock(Self, order.name))
               => AfterSell(order).inv = Self
    /\ \A i \in 1..Len(fulfilled) : fulfilled[i].batches # << >>

(***************************************************************************)
(* C14: catalog keys.                                                      *)
(***************************************************************************)
\* a register call returns in this step
Returns == registrations' # registrations

\* one key more, new to the catalog, holding the description, and the
\* descriptions there were as they were
OneNewKey ==
    /\ registered' \notin DOMAIN data
    /\ DOMAIN data' = DOMAIN data \cup {registered'}
    /\ data'[registered'] = call'.description
    /\ \A k \in DOMAIN data : data'[k] = data[k]
    /\ call'.given \in DOMAIN data => registered' # call'.given

\* C14 as amended: every register call that returns adds exactly one key
\* and returns it, the key was in the catalog before under no description,
\* no description there is overwritten, a code supplied that is in the
\* catalog is replaced by another, and a code supplied that is not empty and
\* not in the catalog is used as given.
C14_OneNewKeyNonEmptyCodeKept ==
    [][Returns =>
        /\ OneNewKey
        /\ (~Falsy(call'.given) /\ call'.given \notin DOMAIN data)
               => registered' = call'.given]_vars

\* C14 as stated: any code supplied that is not in the catalog is used as
\* given
C14_OneNewKeyCodeKept ==
    [][Returns =>
        /\ OneNewKey
        /\ (call'.given # None /\ call'.given \notin DOMAIN data)
               => registered' = call'.given]_vars

\* "x" was registered as given, and a second call that gave "x" came back
\* with another code
C14_Witness ==
    /\ pc = "idle"
    /\ registrations = 2
    /\ call.given = <<"x">>
    /\ <<"x">> \in DOMAIN data
    /\ registered # <<"x">>

(***************************************************************************)
(* C15: LIFO is FIFO on the reversed sequence.                             *)
(***************************************************************************)
Reverse(s) == [i \in 1..Len(s) |-> s[Len(s) + 1 - i]]

\* the batches ids as values: price and quantity
BatchValues(h, ids) == [i \in 1..Len(ids) |-> h[ids[i]]]

\* C15: for 0 < q <= total quantity, take_last(q) returns the fragments
\* that take_first(q) returns on the reversed Stack, in the same order, and
\* leaves the batches that take_first leaves there, reversed.
C15_LastIsFirstReversed ==
    \A quantity \in Takes :
        (0 < quantity /\ quantity <= Quantity(heap, stack)) =>
            LET l == TakeLast(heap, stack, quantity)
                f == TakeFirst(heap, Reverse(stack), quantity)
            IN  /\ BatchValues(l.heap, l.taken) = BatchValues(f.heap, f.taken)
                /\ BatchValues(l.heap, l.batches) = Reverse(BatchValues(f.heap, f.batches))

\* take_last(4) on 3 @ 1, 2 @ 2 took the last batch whole and two of the
\* first
C15_Witness ==
    /\ returned = <<2, 3>>
    /\ stack = <<1>>
    /\ heap = <<Batch(FromInt(1), 1), Batch(FromInt(2), 2), Batch(FromInt(1), 2)>>

(***************************************************************************)
(* C16: conservation across a Stack take.                                  *)
(***************************************************************************)
\* the takes of quantity from the Stack, first and last, each with the
\* position in the deque of the batch a split would reduce
TakesOf(quantity) ==
    {[r |-> TakeFirst(heap, stack, quantity), front |-> TRUE],
     [r |-> TakeLast(heap, stack, quantity), front |-> FALSE]}

\* the fragments sum to the quantity asked, and the Stack has that less
QuantityMoved(r, quantity) ==
    /\ Quantity(r.heap, r.taken) = quantity
    /\ Quantity(r.heap, r.batches) = Quantity(heap, stack) - quantity

\* every batch there was keeps its price, and the fragment of a split has
\* the price of the batch it was split from
PricesKept(t) ==
    /\ \A id \in 1..Len(heap) : t.r.heap[id].purchase_price = heap[id].purchase_price
    /\ Len(t.r.heap) > Len(heap) =>
           t.r.heap[Len(t.r.heap)].purchase_price =
               heap[IF t.front THEN t.r.batches[1]
                    ELSE t.r.batches[Len(t.r.batches)]].purchase_price

\* C16 as amended: for 0 < q <= total quantity, the fragments take_first or
\* take_last returns sum to q, the Stack's quantity goes down by q, a split
\* leaves fragment and remainder at the price of the lot, and the worth of
\* the fragments plus the worth of the Stack after equals the worth of the
\* Stack before up to float rounding (relative difference at most 2^-30).
C16_TakeConservesRounded ==
    \A quantity \in Takes :
        (0 < quantity /\ quantity <= Quantity(heap, stack)) =>
            \A t \in TakesOf(quantity) :
                /\ QuantityMoved(t.r, quantity)
                /\ PricesKept(t)
                /\ FClose(FAdd(Worth(t.r.heap, t.r.taken), Worth(t.r.heap, t.r.batches)),
                          Worth(heap, stack), ToleranceBits)

\* C16 as stated: the two worths add up to the worth before, exactly
C16_TakeConserves ==
    \A quantity \in Takes :
        (0 < quantity /\ quantity <= Quantity(heap, stack)) =>
            \A t \in TakesOf(quantity) :
                /\ QuantityMoved(t.r, quantity)
                /\ PricesKept(t)
                /\ FAdd(Worth(t.r.heap, t.r.taken), Worth(t.r.heap, t.r.batches))
                       = Worth(heap, stack)

\* take_first(4) on 3 @ 1, 2 @ 2 took the first batch whole and one of the
\* second
C16_Witness ==
    /\ returned = <<1, 3>>
    /\ stack = <<2>>
    /\ heap = <<Batch(FromInt(1), 3), Batch(FromInt(2), 1), Batch(FromInt(2), 1)>>

(***************************************************************************)
(* C17: conservation of cost under FIFO.                                   *)
(***************************************************************************)
\* the sum over all buys of unit_price * quantity
CostOfBuys ==
    SumFloat([i \in 1..Len(purchases) |-> FMul(purchases[i].price, purchases[i].quantity)],
             Len(purchases))

\* the keys of hold as the dict keeps them: in the order of their first buy
RECURSIVE FirstBought(_)
FirstBought(n) ==
    IF n = 0 THEN << >>
    ELSE IF purchases[n].name \in Range(FirstBought(n - 1)) THEN FirstBought(n - 1)
    ELSE Append(FirstBought(n - 1), purchases[n].name)

\* the worth at cost of all lots still held: the sum over the items of the
\* sum over their lots of purchase_price * quantity
HeldWorth ==
    LET names == FirstBought(Len(purchases))
    IN  SumFloat([i \in 1..Len(names) |-> Worth(heap, hold[names[i]])], Len(names))

\* C17 as amended: after any sequence of buys and sells the cost of all buys
\* equals the ledger's cogs plus the worth at cost of the lots still held up
\* to float rounding (relative difference at most 2^-30).
C17_CostConservedRounded ==
    FClose(CostOfBuys, FAdd(Cogs(Self), HeldWorth), ToleranceBits)

\* C17 as stated: the two are equal
C17_CostConserved == CostOfBuys = FAdd(Cogs(Self), HeldWorth)

\* two buys and two sales, one of which split a lot, and lots still held
C17_Witness ==
    /\ Len(purchases) = 2
    /\ Len(fulfilled) = 2
    /\ Len(heap) = 3
    /\ \E name \in Items : OnHand(Self, name) > 0

(***************************************************************************)
(* C18: purchase order is preserved.                                       *)
(***************************************************************************)
\* the buys of an item, in the order they were made
PurchasesOf(name) == SelectSeq(purchases, LAMBDA p : p.name = name)

\* lots are the last buys, in their order and at their prices, the first
\* lot with no more than was bought and the others with all of it
SuffixOf(lots, bought) ==
    /\ Len(lots) <= Len(bought)
    /\ \A i \in 1..Len(lots) :
           LET b == bought[Len(bought) - Len(lots) + i]
           IN  /\ lots[i].purchase_price = b.price
               /\ IF i = 1 THEN lots[i].quantity <= b.quantity
                  ELSE lots[i].quantity = b.quantity

\* C18: in every reachable state each item's lot sequence is a suffix of the
\* item's purchase history, in purchase order, every lot at the price it was
\* bought at and only the first lot with less than was bought; and a buy
\* appends its lot at the back.
C18_PurchaseOrderKept ==
    /\ \A name \in Items :
           SuffixOf(BatchValues(heap, Lots(Self, name)), PurchasesOf(name))
    /\ \A item \in PurchaseOrders :
           LET out == Buy(Self, item.name, item.price, item.quantity).inv
           IN  BatchValues(out.heap, Lots(out, item.name))
                   = Append(BatchValues(heap, Lots(Self, item.name)),
                            Batch(item.price, item.quantity))

\* pens were bought twice, and one pen of the first buy was sold: the lot at
\* 0.6 is first, with one left of two, and the lot at 0.5 is behind it
C18_Witness ==
    /\ "Pen" \in DOMAIN hold
    /\ BatchValues(heap, hold["Pen"]) = <<Batch(Tenths(6), 1), Batch(Tenths(5), 1)>>

(***************************************************************************)
(* C19: every lot in a live sequence has a positive quantity.              *)
(***************************************************************************)
\* every batch of ids holds something
AllPositive(h, ids) == \A i \in 1..Len(ids) : h[ids[i]].quantity > 0

\* C19: after any sequence of buys of positive quantities and of sells, no
\* item's lot sequence holds a lot of quantity 0 or less: a lot consumed
\* exactly is removed; and Stack._take, from either end, leaves such a
\* sequence with positive lots only.
C19_LotsPositive ==
    \A name \in DOMAIN hold :
        /\ AllPositive(heap, hold[name])
        /\ \A quantity \in Takes \ {0} :
               /\ LET r == TakeFirst(heap, hold[name], quantity)
                  IN  AllPositive(r.heap, r.batches)
               /\ LET r == TakeLast(heap, hold[name], quantity)
                  IN  AllPositive(r.heap, r.batches)

\* two lots of pens were bought and the first was sold exactly: it is in the
\* Parcel, and the second lot alone is held
C19_Witness ==
    /\ "Pen" \in DOMAIN hold
    /\ hold["Pen"] = <<2>>
    /\ Len(heap) = 2
    /\ Len(fulfilled) = 1
    /\ fulfilled[1].batches = <<1>>

(***************************************************************************)
(* C20: equalize_prices at zero quantity.                                  *)
(***************************************************************************)
\* C20: when the Stack's total quantity is 0, the Stack empty or all its
\* batches of quantity 0, equalize_prices leaves the purchase_price and the
\* quantity of every batch as they were.
C20_EqualizeAtZeroIsNoOp ==
    Quantity(heap, stack) = 0 =>
        \A i \in 1..Len(stack) : Equalized[stack[i]] = heap[stack[i]]

(***************************************************************************)
(* C21: a sell of an item that is sold out.                                *)
(***************************************************************************)
\* the item was bought and all of it has been sold: a key without lots
SoldOut(inv, name) == name \in DOMAIN inv.hold /\ inv.hold[name] = << >>

\* C21: a sell of q > 0 of an item that was bought and has since been sold
\* out fails as a known item with less on hand than asked for, with
\* InsufficientStock, not as an absent key with NotInStock.
C21_SoldOutIsInsufficientStock ==
    \A order \in SaleOrders :
        (order.quantity > 0 /\ SoldOut(Self, order.name))
            => AfterSell(order).raised = "InsufficientStock"

(***************************************************************************)
(* C22: issue_code gives up.                                               *)
(***************************************************************************)
\* C22: issue_code draws no more than 10 codes in a call: when none of them
\* is unused it raises an error, so that register comes to an end, also when
\* every code of the length asked for is in the catalog.
C22_IssueCodeGivesUp == attempts <= MaxAttempts

====
